---- MODULE Spec2Model ----
(***************************************************************************)
(* A model of the cascading quotient filter of zeebo/cascade.              *)
(*                                                                         *)
(* Numbers.  Go's uint and uint64 are 64 bits wide.  Every value the model *)
(* computes is far below 2^31 except the remainder width r of a cascade    *)
(* level after the unsigned decrement `c.r--` has wrapped: the value       *)
(* 2^64 - k is written -k here, so that 3 + r (mod 2^64) is the ordinary   *)
(* sum, and the shifts by r test `r < 0` for "shift count >= 64".          *)
(***************************************************************************)
EXTENDS Integers, Sequences, FiniteSets, TLC

\* ------------------------------------------------------------------------
\*  Arithmetic helpers
\* ------------------------------------------------------------------------

Pow2(n) == 2 ^ n

Min(a, b) == IF a < b THEN a ELSE b
Max(a, b) == IF a > b THEN a ELSE b

\* ------------------------------------------------------------------------
\*  bitReader: values of `bits` bits packed into a byte buffer.
\*  A buffer is a sequence of bytes; Go's buf[n] is buf[n + 1] here.
\*  A 64-bit word is kept as its 8 little-endian bytes (type u64 [8]byte),
\*  and the shifts and masks on it are carried out byte by byte.
\* ------------------------------------------------------------------------

\* copy(tmp[:], br.buf[n:]): the 8 bytes at n, zero where the buffer ends
rawRead(buf, n) ==
    [j \in 0..7 |-> IF n + j < Len(buf) THEN buf[n + j + 1] ELSE 0]

\* a faulty rawWrite that writes nothing where fewer than 8 bytes remain
rawWriteWhole(buf, n, t) ==
    [i \in 1..Len(buf) |->
        IF n + 8 <= Len(buf) /\ i - 1 >= n /\ i - 1 < n + 8 THEN t[i - 1 - n]
        ELSE buf[i]]

\* copy(br.buf[n:], tmp[:]): the bytes of t that fit are written back
rawWrite(buf, n, t) ==
    [i \in 1..Len(buf) |->
        IF i - 1 >= n /\ i - 1 < n + 8 THEN t[i - 1 - n] ELSE buf[i]]

RECURSIVE shiftMask(_, _, _, _)
\* (t.toUint64() >> (8*j + o)) & (1<<bits - 1), for o < 8
shiftMask(t, j, o, bits) ==
    IF bits = 0 \/ j > 7 THEN 0
    ELSE LET take == Min(8 - o, bits)
         IN  ((t[j] \div Pow2(o)) % Pow2(take))
               + Pow2(take) * shiftMask(t, j + 1, 0, bits - take)

Get(buf, bits, idx) ==
    LET b == idx * bits
    IN  shiftMask(rawRead(buf, b \div 8), 0, b % 8, bits)

\* byte j of (v &^ mask<<o) | (val & mask)<<o, where t holds the bytes of v
mergeByte(t, j, o, bits, val) ==
    LET lo == Max(o, 8 * j) - 8 * j
        hi == Min(o + bits, 8 * j + 8) - 8 * j
    IN  IF lo >= hi THEN t[j]
        ELSE (t[j] % Pow2(lo))
               + Pow2(lo) * ((val \div Pow2(8 * j + lo - o)) % Pow2(hi - lo))
               + Pow2(hi) * (t[j] \div Pow2(hi))

Put(buf, bits, idx, val) ==
    LET b == idx * bits
        n == b \div 8
        o == b % 8
        t == rawRead(buf, n)
    IN  rawWrite(buf, n, [j \in 0..7 |-> mergeByte(t, j, o, bits, val)])

\* Get and Put on values of up to 64 bits, which are kept as words of 8
\* little-endian bytes like the buffer's (Get and Put above are these for
\* values small enough to be written as one number).
newBitReader(buf, bits) == [bits |-> bits, buf |-> buf]

\* the n <= 8 bits of the word t from bit p on; bits past bit 63 are 0
bitsAt(t, p, n) == shiftMask(t, p \div 8, p % 8, n)

\* br.rawRead(b/8) >> (b % 8) & br.mask
GetWord(buf, bits, idx) ==
    LET b == idx * bits
        t == rawRead(buf, b \div 8)
    IN  [k \in 0..7 |->
            IF 8 * k >= bits THEN 0
            ELSE bitsAt(t, (b % 8) + 8 * k, Min(8, bits - 8 * k))]

\* byte j of (v &^ mask<<o) | (val & mask)<<o, val being a word
mergeWordByte(t, j, o, bits, val) ==
    LET lo == Max(o, 8 * j) - 8 * j
        hi == Min(o + bits, 8 * j + 8) - 8 * j
    IN  IF lo >= hi THEN t[j]
        ELSE (t[j] % Pow2(lo))
               + Pow2(lo) * bitsAt(val, 8 * j + lo - o, hi - lo)
               + Pow2(hi) * (t[j] \div Pow2(hi))

PutWord(buf, bits, idx, val) ==
    LET b == idx * bits
        n == b \div 8
        o == b % 8
        t == rawRead(buf, n)
    IN  rawWrite(buf, n, [j \in 0..7 |-> mergeWordByte(t, j, o, bits, val)])

\* ------------------------------------------------------------------------
\*  slot: remainder << 3 | shifted << 2 | continuation << 1 | occupied
\* ------------------------------------------------------------------------

\* a faulty newSlot that sets the occupied bit of every new slot
newSlotOccupied(rem) == rem * 8 + 1

newSlot(rem) == rem * 8

\* a faulty Empty that looks at every bit of the slot
SlotEmptyAllBits(s) == s = 0

SlotEmpty(s) == s % 8 = 0
Remainder(s) == s \div 8

Occupied(s) == s % 2 = 1
SetOccupied(s) == IF Occupied(s) THEN s ELSE s + 1
ClearOccupied(s) == IF Occupied(s) THEN s - 1 ELSE s

Continuation(s) == (s \div 2) % 2 = 1
SetContinuation(s) == IF Continuation(s) THEN s ELSE s + 2

Shifted(s) == (s \div 4) % 2 = 1
SetShifted(s) == IF Shifted(s) THEN s ELSE s + 4

ClusterStart(s) == Occupied(s) /\ ~Continuation(s) /\ ~Shifted(s)
RunStart(s) == ~Continuation(s) /\ (Occupied(s) \/ Shifted(s))

\* ------------------------------------------------------------------------
\*  quoFil: one quotient filter, the record [q, r, buf, len]
\*  (br.bits is 3 + r and mask is 1<<q - 1: both are functions of q and r)
\* ------------------------------------------------------------------------

\* a loop that never exits yields NoIndex / Diverged instead of a value
NoIndex == -1
Diverged == [q |-> 0, r |-> 0, buf |-> <<>>, len |-> -1]

bufSize(q, r) == (Pow2(q) * (3 + r) + 7) \div 8

\* a nil buf (written <<>>) is replaced by make([]byte, bufSize(q, r))
newQuoFil(q, r, buf) ==
    [q |-> q, r |-> r, len |-> 0,
     buf |-> IF buf = <<>> THEN [i \in 1..bufSize(q, r) |-> 0] ELSE buf]

Cap(qf) == Pow2(qf.q)
QfEmpty(qf) == qf.len = 0

Clear(qf) == [qf EXCEPT !.len = 0, !.buf = [i \in 1..Len(qf.buf) |-> 0]]

getSlot(qf, idx) == Get(qf.buf, 3 + qf.r, idx)
setSlot(qf, idx, sl) == [qf EXCEPT !.buf = Put(qf.buf, 3 + qf.r, idx, sl)]

\* hash >> q.r            (a shift by 64 or more gives 0)
quotient(qf, hash) == IF qf.r < 0 THEN 0 ELSE hash \div Pow2(qf.r)
\* hash & (1<<q.r - 1)    (1<<r is 0 for r >= 64, so the mask is all ones)
remainder(qf, hash) == IF qf.r < 0 THEN hash ELSE hash % Pow2(qf.r)

index(qf, quo) == quo % Pow2(qf.q)

\* a faulty next that runs off the end of the slot array instead of
\* wrapping to index 0
nextNoWrap(qf, idx) == idx + 1

next(qf, idx) == (idx + 1) % Pow2(qf.q)
prev(qf, idx) == (idx + Pow2(qf.q) - 1) % Pow2(qf.q)

RECURSIVE walkBack(_, _, _)
\* for q.getSlot(start).Shifted() { start = q.prev(start) }
walkBack(qf, start, fuel) ==
    IF ~Shifted(getSlot(qf, start)) THEN start
    ELSE IF fuel = 0 THEN NoIndex
    ELSE walkBack(qf, prev(qf, start), fuel - 1)

RECURSIVE skipContinuation(_, _, _)
\* for q.getSlot(run).Continuation() { run = q.next(run) }
skipContinuation(qf, run, fuel) ==
    IF ~Continuation(getSlot(qf, run)) THEN run
    ELSE IF fuel = 0 THEN NoIndex
    ELSE skipContinuation(qf, next(qf, run), fuel - 1)

RECURSIVE skipUnoccupied(_, _, _)
\* for !q.getSlot(start).Occupied() { start = q.next(start) }
skipUnoccupied(qf, start, fuel) ==
    IF Occupied(getSlot(qf, start)) THEN start
    ELSE IF fuel = 0 THEN NoIndex
    ELSE skipUnoccupied(qf, next(qf, start), fuel - 1)

RECURSIVE findRunLoop(_, _, _, _, _)
\* for start != idx { advance run past one run, start past one occupied bit }
findRunLoop(qf, idx, start, run, fuel) ==
    IF start = idx THEN run
    ELSE IF fuel = 0 THEN NoIndex
    ELSE LET run1 == skipContinuation(qf, next(qf, run), Cap(qf))
             start1 == skipUnoccupied(qf, next(qf, start), Cap(qf))
         IN  IF run1 = NoIndex \/ start1 = NoIndex THEN NoIndex
             ELSE findRunLoop(qf, idx, start1, run1, fuel - 1)

\* a faulty findRun that does not walk back to the start of the cluster:
\* it takes the index itself for the start of its run
findRunInPlace(qf, idx) == idx

findRun(qf, idx) ==
    LET start == walkBack(qf, idx, Cap(qf))
    IN  IF start = NoIndex THEN NoIndex
        ELSE findRunLoop(qf, idx, start, start, Cap(qf))

RECURSIVE insertSlot(_, _, _, _)
\* a faulty pass of insertSlot that moves the occupied bit along with the
\* displaced slot instead of leaving it at its index
insertStepCarry(qf, idx, curr, fuel, old) ==
    IF SlotEmpty(old) THEN setSlot(qf, idx, curr)
    ELSE IF fuel = 0 THEN Diverged
    ELSE insertSlot(setSlot(qf, idx, curr), next(qf, idx), SetShifted(old), fuel - 1)

\* a faulty pass of insertSlot that does not mark the displaced slot as
\* shifted
insertStepNoShift(qf, idx, curr, fuel, old) ==
    IF SlotEmpty(old) THEN setSlot(qf, idx, curr)
    ELSE IF fuel = 0 THEN Diverged
    ELSE insertSlot(
            setSlot(qf, idx, IF Occupied(old) THEN SetOccupied(curr) ELSE curr),
            next(qf, idx),
            IF Occupied(old) THEN ClearOccupied(old) ELSE old,
            fuel - 1)

\* one pass of the loop of insertSlot; old is `prev`, the slot read at idx
insertStep(qf, idx, curr, fuel, old) ==
    IF SlotEmpty(old) THEN setSlot(qf, idx, curr)
    ELSE IF fuel = 0 THEN Diverged
    ELSE insertSlot(
            setSlot(qf, idx, IF Occupied(old) THEN SetOccupied(curr) ELSE curr),
            next(qf, idx),
            IF Occupied(old) THEN ClearOccupied(SetShifted(old))
            ELSE SetShifted(old),
            fuel - 1)

insertSlot(qf, idx, curr, fuel) == insertStep(qf, idx, curr, fuel, getSlot(qf, idx))

\* results of scanning a run for a remainder
ScanHit == 1
ScanMiss == 0
ScanDiverged == 2

RECURSIVE lookupScan(_, _, _, _)
\* a faulty scan that does not stop at the end of the run: it goes on into
\* the runs that follow in the cluster
lookupScanPastRun(qf, run, rem, fuel) ==
    LET srem == Remainder(getSlot(qf, run))
    IN  IF srem = rem THEN ScanHit
        ELSE IF srem > rem THEN ScanMiss
        ELSE IF SlotEmpty(getSlot(qf, next(qf, run))) THEN ScanMiss
        ELSE IF fuel = 0 THEN ScanDiverged
        ELSE lookupScan(qf, next(qf, run), rem, fuel - 1)

lookupScan(qf, run, rem, fuel) ==
    LET srem == Remainder(getSlot(qf, run))
    IN  IF srem = rem THEN ScanHit
        ELSE IF srem > rem THEN ScanMiss
        ELSE IF ~Continuation(getSlot(qf, next(qf, run))) THEN ScanMiss
        ELSE IF fuel = 0 THEN ScanDiverged
        ELSE lookupScan(qf, next(qf, run), rem, fuel - 1)

lookupCode(qf, hash) ==
    LET rem == remainder(qf, hash)
        idx == index(qf, quotient(qf, hash))
    IN  IF ~Occupied(getSlot(qf, idx)) THEN ScanMiss
        ELSE LET run == findRun(qf, idx)
             IN  IF run = NoIndex THEN ScanDiverged
                 ELSE lookupScan(qf, run, rem, Cap(qf))

Lookup(qf, hash) == lookupCode(qf, hash) = ScanHit

\* a faulty Lookup that marks the canonical slot of the hash as occupied
lookupLeavesMarked(qf, hash) ==
    setSlot(qf, index(qf, quotient(qf, hash)),
            SetOccupied(getSlot(qf, index(qf, quotient(qf, hash)))))

\* the filter as Lookup leaves it: quotient, remainder, index, getSlot,
\* findRun and next are all it calls; none assigns q.len or calls setSlot,
\* and br.Get copies out of br.buf
lookupLeaves(qf, hash) == qf
LookupHalts(qf, hash) == lookupCode(qf, hash) # ScanDiverged

\* the scan of Add: the index to insert at, or Duplicate, or NoIndex
Duplicate == -2

RECURSIVE addScan(_, _, _, _)
\* a faulty scan that does not return on an equal remainder: the duplicate
\* is inserted in front of it
addScanNoDup(qf, ridx, rem, fuel) ==
    LET srem == Remainder(getSlot(qf, ridx))
    IN  IF srem >= rem THEN ridx
        ELSE IF ~Continuation(getSlot(qf, next(qf, ridx))) THEN next(qf, ridx)
        ELSE IF fuel = 0 THEN NoIndex
        ELSE addScan(qf, next(qf, ridx), rem, fuel - 1)

addScan(qf, ridx, rem, fuel) ==
    LET srem == Remainder(getSlot(qf, ridx))
    IN  IF srem = rem THEN Duplicate
        ELSE IF srem > rem THEN ridx
        ELSE IF ~Continuation(getSlot(qf, next(qf, ridx))) THEN next(qf, ridx)
        ELSE IF fuel = 0 THEN NoIndex
        ELSE addScan(qf, next(qf, ridx), rem, fuel - 1)

\* a faulty end of Add that leaves len as it was
addCountNone(qf) == qf

\* q.len++ once insertSlot has returned
addCount(qf) == IF qf = Diverged THEN Diverged ELSE [qf EXCEPT !.len = @ + 1]

\* a faulty Add that never marks the new slot as a continuation
addInsertNoCont(qf, rem, qidx, occ, run, ridx) ==
    IF ridx = NoIndex THEN Diverged
    ELSE IF ridx = Duplicate THEN qf
    ELSE addCount(insertSlot(
            IF occ /\ ridx = run
            THEN setSlot(qf, run, SetContinuation(getSlot(qf, run)))
            ELSE qf,
            ridx,
            IF ridx # qidx THEN SetShifted(newSlot(rem)) ELSE newSlot(rem),
            2 * Cap(qf)))

\* a faulty Add that does not mark the new slot as shifted when it goes in
\* away from its canonical index
addInsertNoShift(qf, rem, qidx, occ, run, ridx) ==
    IF ridx = NoIndex THEN Diverged
    ELSE IF ridx = Duplicate THEN qf
    ELSE addCount(insertSlot(
            IF occ /\ ridx = run
            THEN setSlot(qf, run, SetContinuation(getSlot(qf, run)))
            ELSE qf,
            ridx,
            IF occ /\ ridx # run THEN SetContinuation(newSlot(rem)) ELSE newSlot(rem),
            2 * Cap(qf)))

\* Add, from `if ridx == run` on: the new slot goes in at ridx.  occ is
\* qslot.Occupied() as read before Add set the bit.
addInsert(qf, rem, qidx, occ, run, ridx) ==
    IF ridx = NoIndex THEN Diverged
    ELSE IF ridx = Duplicate THEN qf
    ELSE addCount(insertSlot(
            IF occ /\ ridx = run
            THEN setSlot(qf, run, SetContinuation(getSlot(qf, run)))
            ELSE qf,
            ridx,
            IF ridx # qidx
            THEN SetShifted(IF occ /\ ridx # run
                            THEN SetContinuation(newSlot(rem)) ELSE newSlot(rem))
            ELSE (IF occ /\ ridx # run
                  THEN SetContinuation(newSlot(rem)) ELSE newSlot(rem)),
            2 * Cap(qf)))

\* Add, from `ridx := run` on: scan the run when the quotient was occupied
addScanRun(qf, rem, qidx, occ, run) ==
    IF run = NoIndex THEN Diverged
    ELSE addInsert(qf, rem, qidx, occ, run,
                   IF occ THEN addScan(qf, run, rem, Cap(qf)) ELSE run)

\* Add, from `run := q.findRun(qidx)` on
addRun(qf, rem, qidx, occ) == addScanRun(qf, rem, qidx, occ, findRun(qf, qidx))

\* a faulty Add that writes the first element of an empty canonical slot
\* without setting its occupied bit
addSlotBare(qf, rem, qidx, qslot) ==
    IF SlotEmpty(qslot)
    THEN [setSlot(qf, qidx, newSlot(rem)) EXCEPT !.len = @ + 1]
    ELSE IF ~Occupied(qslot)
    THEN addRun(setSlot(qf, qidx, SetOccupied(qslot)), rem, qidx, FALSE)
    ELSE addRun(qf, rem, qidx, TRUE)

\* Add, from `qslot := q.getSlot(qidx)` on
addSlot(qf, rem, qidx, qslot) ==
    IF SlotEmpty(qslot)
    THEN [setSlot(qf, qidx, SetOccupied(newSlot(rem))) EXCEPT !.len = @ + 1]
    ELSE IF ~Occupied(qslot)
    THEN addRun(setSlot(qf, qidx, SetOccupied(qslot)), rem, qidx, FALSE)
    ELSE addRun(qf, rem, qidx, TRUE)

addAt(qf, rem, qidx) == addSlot(qf, rem, qidx, getSlot(qf, qidx))

Add(qf, hash) == addAt(qf, remainder(qf, hash), index(qf, quotient(qf, hash)))

AddHalts(qf, hash) == Add(qf, hash) # Diverged

\* ------------------------------------------------------------------------
\*  quoFilIter: the record [idx, quo, vis, hash]
\* ------------------------------------------------------------------------

NoIter == [idx |-> -1, quo |-> 0, vis |-> 0, hash |-> 0]

RECURSIVE iterStart(_, _, _)
\* for q.len > 0 && !q.getSlot(it.idx).ClusterStart() { it.idx = q.next(it.idx) }
iterStart(qf, idx, fuel) ==
    IF ~(qf.len > 0 /\ ~ClusterStart(getSlot(qf, idx))) THEN idx
    ELSE IF fuel = 0 THEN NoIndex
    ELSE iterStart(qf, next(qf, idx), fuel - 1)

Iter(qf) ==
    LET idx == iterStart(qf, 0, Cap(qf))
    IN  IF idx = NoIndex THEN NoIter
        ELSE [idx |-> idx, quo |-> 0, vis |-> 0, hash |-> 0]

\* a faulty Hash that does not shift the quotient above the remainder
iterHashUnshifted(qf, quo, rem) == IF qf.r < 0 THEN rem ELSE quo + rem

\* uint64(it.quo)<<it.q.r | uint64(s.Remainder())
iterHash(qf, quo, rem) == IF qf.r < 0 THEN rem ELSE quo * Pow2(qf.r) + rem

RECURSIVE nextLoop(_, _, _, _)
nextLoop(qf, it, idx, fuel) ==
    LET s == getSlot(qf, idx)
        quo == IF ClusterStart(s) THEN idx
               ELSE IF RunStart(s)
                    THEN skipUnoccupied(qf, next(qf, index(qf, it.quo)), Cap(qf))
               ELSE it.quo
    IN  IF quo = NoIndex THEN NoIter
        ELSE IF ~SlotEmpty(s)
             THEN [idx |-> next(qf, idx), quo |-> quo, vis |-> it.vis + 1,
                   hash |-> iterHash(qf, quo, Remainder(s))]
        ELSE IF fuel = 0 THEN NoIter
        ELSE nextLoop(qf, [it EXCEPT !.quo = quo], next(qf, idx), fuel - 1)

\* a faulty test that lets Next() go on after Len() elements
NextOkInclusive(qf, it) == it.vis <= qf.len

\* Next() reports whether it advanced; NextIt is the iterator afterwards
NextOk(qf, it) == it.vis < qf.len
NextIt(qf, it) == IF NextOk(qf, it) THEN nextLoop(qf, it, it.idx, Cap(qf)) ELSE it

RECURSIVE drain(_, _, _)
\* for it := qf.Iter(); it.Next(); { out = append(out, it.Hash()) }
drain(qf, it, out) ==
    IF it = NoIter THEN <<NoIndex>>
    ELSE IF ~NextOk(qf, it) THEN out
    ELSE LET it1 == NextIt(qf, it)
         IN  IF it1 = NoIter THEN <<NoIndex>>
             ELSE drain(qf, it1, Append(out, it1.hash))

IterAll(qf) == drain(qf, Iter(qf), <<>>)

\* ------------------------------------------------------------------------
\*  casFilter: the cascade, the record [q, r, levels, mappings].
\*  levels[k + 1] is level k; a mapping is <<offset, length>> of the region
\*  of the file the level's buffer is mapped from (the buffer's bytes are
\*  kept in the level).  The file is modelled by its size.
\* ------------------------------------------------------------------------

\* pageSize := unix.Getpagesize()
PageSize == 4

\* the bound (3+r)*2^q has to stay under: the bits of a 4k page
PageBits == 32768

RECURSIVE newCasFilLoop(_, _, _, _)
\* a faulty loop that also takes a candidate of exactly 32768 bits
newCasFilLoopLe(bits, cr, r, vr) ==
    IF ~(cr < bits) THEN r
    ELSE LET cv == IF bits - cr >= 15 THEN 4 * PageBits
                   ELSE (3 + cr) * Pow2(bits - cr)
         IN  IF cv <= PageBits /\ cv > vr
             THEN newCasFilLoop(bits, cr + 1, cr, cv)
             ELSE newCasFilLoop(bits, cr + 1, r, vr)

\* for cr := 1; cr < bits; cr++ { if cv < 32768 && cv > vr { r, vr = cr, cv } }
\* (3 + cr) * (1 << s) with s >= 15 is 4 * 32768 or more, or 0 where it
\* wraps past 64 bits: the candidate is skipped either way, and cv is
\* written 4 * PageBits for it
newCasFilLoop(bits, cr, r, vr) ==
    IF ~(cr < bits) THEN r
    ELSE LET cv == IF bits - cr >= 15 THEN 4 * PageBits
                   ELSE (3 + cr) * Pow2(bits - cr)
         IN  IF cv < PageBits /\ cv > vr
             THEN newCasFilLoop(bits, cr + 1, cr, cv)
             ELSE newCasFilLoop(bits, cr + 1, r, vr)

newCasFil(bits) ==
    LET r == newCasFilLoop(bits, 1, 0, 0)
    IN  [q |-> bits - r, r |-> r, levels |-> <<>>, mappings |-> <<>>]

RECURSIVE casLenFrom(_, _)
casLenFrom(levels, k) ==
    IF k > Len(levels) THEN 0 ELSE levels[k].len + casLenFrom(levels, k + 1)

CasLen(c) == casLenFrom(c.levels, 1)

QuotientBits(c) == c.q
RemainderBits(c) == c.r

\* a faulty sum that counts the last level only
currentSizeLast(levels, k) ==
    IF Len(levels) = 0 THEN 0 ELSE Len(levels[Len(levels)].buf)

RECURSIVE currentSizeFrom(_, _)
\* for _, qf := range c.levels { currentSize += int64(len(qf.br.buf)) }
currentSizeFrom(levels, k) ==
    IF k > Len(levels) THEN 0
    ELSE Len(levels[k].buf) + currentSizeFrom(levels, k + 1)

\* what the file system does on the next newLevel
EnvOk == "ok"
EnvTruncateFails == "truncate"
EnvMmapFails == "mmap"

\* newLevel: the cascade and the file size afterwards, and whether it failed
newLevel(c, fsize, env) ==
    LET grow == Len(c.levels) > 1
        q == IF grow THEN c.q + 1 ELSE c.q
        r == IF grow THEN c.r - 1 ELSE c.r
        c1 == [c EXCEPT !.q = q, !.r = r]
        size == ((bufSize(q, r) + PageSize - 1) \div PageSize) * PageSize
        currentSize == currentSizeFrom(c.levels, 1)
        buf == [i \in 1..size |-> 0]
    IN  IF env = EnvTruncateFails
        THEN [c |-> c1, fsize |-> fsize, err |-> TRUE]
        ELSE IF env = EnvMmapFails
        THEN [c |-> c1, fsize |-> currentSize + size, err |-> TRUE]
        ELSE [c |-> [c1 EXCEPT
                        !.mappings = Append(@, <<currentSize, size>>),
                        !.levels = Append(@, Clear(newQuoFil(q, r, buf)))],
              fsize |-> currentSize + size,
              err |-> FALSE]

\* a faulty prefix that stops after level 0
prefixLenOne(levels, k) == IF QfEmpty(levels[1]) THEN 0 ELSE 1

\* a faulty prefix that takes in every level, empty or not
prefixLenAll(levels, k) == Len(levels)

RECURSIVE prefixLen(_, _)
\* the number of levels before the first empty one
prefixLen(levels, k) ==
    IF k > Len(levels) \/ QfEmpty(levels[k]) THEN k - 1
    ELSE prefixLen(levels, k + 1)

RECURSIVE addAll(_, _, _)
\* out.Add(h) for each h of hashes[k..], in order
addAll(out, hashes, k) ==
    IF out = Diverged \/ k > Len(hashes) THEN out
    ELSE addAll(Add(out, hashes[k]), hashes, k + 1)

\* the outcome of a call on the cascade: the cascade and the file size
\* afterwards, whether an error was returned, whether it never returned
Outcome(c, fs, err, hang) == [c |-> c, fsize |-> fs, err |-> err, hang |-> hang]

RECURSIVE spillLevels(_, _, _)
\* a faulty spill that does not clear the level it has emptied into out
spillOneKeep(levels, n, k, out) ==
    IF out = Diverged THEN <<Diverged>>
    ELSE spillLevels([levels EXCEPT ![n + 1] = out], n, k + 1)

\* one level of the prefix: out.Add(every hash of it), then Clear it
spillOne(levels, n, k, out) ==
    IF out = Diverged THEN <<Diverged>>
    ELSE spillLevels([levels EXCEPT ![n + 1] = out, ![k] = Clear(levels[k])], n, k + 1)

spillHashes(levels, n, k, hashes) ==
    spillOne(levels, n, k,
             IF hashes = <<NoIndex>> THEN Diverged ELSE addAll(levels[n + 1], hashes, 1))

\* for _, qf := range prefix { for it := qf.Iter(); it.Next(); { out.Add(it.Hash()) }; qf.Clear() }
spillLevels(levels, n, k) ==
    IF k > n THEN levels ELSE spillHashes(levels, n, k, IterAll(levels[k]))

\* spill, after newLevel (if any) has returned nl, n being len(prefix)
spillMerge(c, fs, n, levels) ==
    IF levels = <<Diverged>> THEN Outcome(c, fs, FALSE, TRUE)
    ELSE Outcome([c EXCEPT !.levels = levels], fs, FALSE, FALSE)

\* a faulty spill that goes on to return nil when newLevel has failed
spillIntoSilent(nl, n) ==
    IF nl.err THEN Outcome(nl.c, nl.fsize, FALSE, FALSE)
    ELSE spillMerge(nl.c, nl.fsize, n, spillLevels(nl.c.levels, n, 1))

spillInto(nl, n) ==
    IF nl.err THEN Outcome(nl.c, nl.fsize, TRUE, FALSE)
    ELSE spillMerge(nl.c, nl.fsize, n, spillLevels(nl.c.levels, n, 1))

spillPrefix(c, fsize, env, n) ==
    spillInto(IF n = Len(c.levels) THEN newLevel(c, fsize, env)
              ELSE [c |-> c, fsize |-> fsize, err |-> FALSE],
              n)

spill(c, fsize, env) == spillPrefix(c, fsize, env, prefixLen(c.levels, 1))

\* a faulty Add that spills only once level 0 is above 75% load
casAddSpillLate(c, fsize, env, l0) ==
    IF l0 = Diverged THEN Outcome(c, fsize, FALSE, TRUE)
    ELSE IF l0.len * 4 > Cap(l0) * 3
    THEN spill([c EXCEPT !.levels[1] = l0], fsize, env)
    ELSE Outcome([c EXCEPT !.levels[1] = l0], fsize, FALSE, FALSE)

\* casFilter.Add, after c.levels[0].Add(hash) has returned l0
casAddSpill(c, fsize, env, l0) ==
    IF l0 = Diverged THEN Outcome(c, fsize, FALSE, TRUE)
    ELSE IF l0.len * 4 >= Cap(l0) * 3
    THEN spill([c EXCEPT !.levels[1] = l0], fsize, env)
    ELSE Outcome([c EXCEPT !.levels[1] = l0], fsize, FALSE, FALSE)

\* casFilter.Add, after the newLevel for level 0 (if any) has returned nl
casAddLevel0(nl, hash, env) ==
    IF nl.err THEN Outcome(nl.c, nl.fsize, TRUE, FALSE)
    ELSE casAddSpill(nl.c, nl.fsize, env, Add(nl.c.levels[1], hash))

CasAdd(c, fsize, hash, env) ==
    IF Len(c.levels) = 0
    THEN casAddLevel0(newLevel(c, fsize, env), hash, EnvOk)
    ELSE casAddLevel0([c |-> c, fsize |-> fsize, err |-> FALSE], hash, env)

\* whether Add(hash) would call newLevel
needsLevel(c, l0) ==
    IF l0 = Diverged THEN FALSE
    ELSE /\ l0.len * 4 >= Cap(l0) * 3
         /\ prefixLen([c.levels EXCEPT ![1] = l0], 1) = Len(c.levels)

NeedsLevel(c, hash) ==
    IF Len(c.levels) = 0 THEN TRUE ELSE needsLevel(c, Add(c.levels[1], hash))

\* whether Add calls spill, l0 being level 0 after c.levels[0].Add(hash)
spillsAt(l0) ==
    IF l0 = Diverged THEN FALSE ELSE l0.len * 4 >= Cap(l0) * 3

\* whether Add(hash) would call spill (given that its newLevel for level 0,
\* if any, does not fail)
Spills(c, hash) ==
    IF Len(c.levels) = 0
    THEN spillsAt(Add(newLevel(c, 0, EnvOk).c.levels[1], hash))
    ELSE spillsAt(Add(c.levels[1], hash))

RECURSIVE casLookupFrom(_, _, _)
\* a faulty Lookup that returns what the first non-empty level answers
casLookupFirst(levels, hash, k) ==
    IF k > Len(levels) THEN ScanMiss
    ELSE IF QfEmpty(levels[k]) THEN casLookupFrom(levels, hash, k + 1)
    ELSE lookupCode(levels[k], hash)

\* for _, qf := range c.levels { if !qf.Empty() && qf.Lookup(hash) { return true } }
casLookupFrom(levels, hash, k) ==
    IF k > Len(levels) THEN ScanMiss
    ELSE IF QfEmpty(levels[k]) THEN casLookupFrom(levels, hash, k + 1)
    ELSE LET code == lookupCode(levels[k], hash)
         IN  IF code = ScanMiss THEN casLookupFrom(levels, hash, k + 1) ELSE code

CasLookup(c, hash) == casLookupFrom(c.levels, hash, 1) = ScanHit

RECURSIVE casLookupLeavesFrom(_, _, _)
\* the levels as the loop of casFilter.Lookup leaves them: qf.Lookup(hash)
\* is called on the non-empty levels, up to the first that returns true
casLookupLeavesFrom(levels, hash, k) ==
    IF k > Len(levels) THEN levels
    ELSE IF QfEmpty(levels[k]) THEN casLookupLeavesFrom(levels, hash, k + 1)
    ELSE IF lookupCode(levels[k], hash) = ScanMiss
    THEN casLookupLeavesFrom([levels EXCEPT ![k] = lookupLeaves(levels[k], hash)],
                             hash, k + 1)
    ELSE [levels EXCEPT ![k] = lookupLeaves(levels[k], hash)]

\* the cascade as casFilter.Lookup leaves it
casLookupLeaves(c, hash) ==
    [c EXCEPT !.levels = casLookupLeavesFrom(c.levels, hash, 1)]
CasLookupHalts(c, hash) == casLookupFrom(c.levels, hash, 1) # ScanDiverged

\* ------------------------------------------------------------------------
\*  State
\* ------------------------------------------------------------------------

VARIABLES
    qf,        \* a quotient filter used on its own
    added,     \* the hashes passed to qf.Add since it was created or cleared
    it,        \* the iterator over qf, NoIter when there is none
    yielded,   \* the values of it.Hash() after each successful it.Next()
    last,      \* the last call on qf and what it returned
    cas,       \* a cascade
    fsize,     \* the size of the cascade's file, in bytes
    casAdded,  \* the hashes passed to cas.Add calls that returned no error
    casEnv,    \* failed: the hashes of the cas.Add calls that returned an
               \* error; hung: a call on cas never returned
    casLast,   \* the last call on cas and what it returned
    spills,    \* the number of spills cas.Add has run to their end
    probe,     \* a call of a function without state: its name, its
               \* arguments and what it returned
    br,        \* a bitReader used on its own: [bits, buf]
    shadow,    \* the 64-bit words Put into br, by index, cut to br.bits bits
    brLast,    \* the last call on br and what it returned
    fed        \* the hashes fed to a cascade of fed.bits bits so far:
               \* their family and their number

qfVars == <<qf, added, it, yielded, last>>
casVars == <<cas, fsize, casAdded, casEnv, casLast, spills>>
probeVars == <<probe>>
brVars == <<br, shadow, brLast>>
fedVars == <<fed>>
vars == <<qf, added, it, yielded, last, cas, fsize, casAdded, casEnv, casLast,
          spills, probe, br, shadow, brLast, fed>>

\* ------------------------------------------------------------------------
\*  Bounds and inputs
\* ------------------------------------------------------------------------

\* the (q, r) a filter is created with; q + r = HashWidth for each
FilterParams == {<<2, 2>>, <<3, 1>>}
HashWidth == LET p == CHOOSE p \in FilterParams : TRUE IN p[1] + p[2]

\* a caller stops adding at MaxLen elements (and always before the filter
\* is full: Add on a full filter never returns)
MaxLen == 4

\* hashes passed to Add: every value of q + r bits, and two with higher bits
Hashes == (0 .. Pow2(HashWidth) - 1) \cup {Pow2(HashWidth) + 5, 3 * Pow2(HashWidth) + 10}

\* hashes passed to Lookup: one more bit than the filter keeps
LookupHashes == 0 .. Pow2(HashWidth + 1) - 1

\* the total hash width a cascade is created with: newCasFil(fh, bits)
CasBits == 3

\* a caller stops before the cascade would allocate a level beyond MaxLevels
MaxLevels == 4

\* the file system refuses at most MaxFailures times
MaxFailures == 1

\* hashes passed to the cascade: one with quotient 0, one with the last
\* quotient of level 0, and two that agree on their low CasBits bits
CasHashes == {0, Pow2(CasBits) - 5, Pow2(CasBits) - 1, Pow2(CasBits) + 3}

\* hashes passed to the cascade's Lookup: those, and two never added
CasLookupHashes == CasHashes \cup {1, Pow2(CasBits) - 2}

\* the part of a hash the filter keeps: its canonical index and remainder
Key(f, h) == <<index(f, quotient(f, h)), remainder(f, h)>>
Known(f, h) == \E g \in added : Key(f, g) = Key(f, h)

\* ------------------------------------------------------------------------
\*  A quotient filter on its own: newQuoFil, Add, Lookup, Iter/Next, Clear.
\*  Lookup and the iterator never write to the filter, so every filter
\*  state is reached by Adds (and Clear) alone: the caller modelled here
\*  adds, then looks a hash up, then iterates, and clears before adding
\*  again (each later step may be skipped).
\* ------------------------------------------------------------------------

Idle == [op |-> "new", res |-> FALSE, known |-> FALSE]
\* the call did not reach newLevel
NoAlloc == "none"

\* arg: the hash passed to a Lookup, <<>> for the other calls; alloc: what
\* the file system did in the newLevel of the call
CasIdle ==
    [op |-> "new", arg |-> <<>>, res |-> FALSE, known |-> FALSE, err |-> FALSE,
     alloc |-> NoAlloc]
CasFresh ==
    /\ cas = newCasFil(CasBits)
    /\ fsize = 0
    /\ casAdded = {}
    /\ casEnv = [failed |-> {}, hung |-> FALSE]
    /\ casLast = CasIdle
    /\ spills = 0

\* no function called, no bitReader, nothing fed
ProbeFresh == probe = [fn |-> "none", in |-> <<>>, out |-> <<>>]
BrNone ==
    /\ br = [bits |-> 0, buf |-> <<>>]
    /\ shadow = <<>>
    /\ brLast = [op |-> "new", idx |-> 0, val |-> <<>>]
FedNone == fed = [bits |-> 0, family |-> "none", n |-> 0]

QfNone ==
    /\ qf = Diverged
    /\ added = {}
    /\ it = NoIter
    /\ yielded = <<>>
    /\ last = Idle

Init ==
    /\ \E p \in FilterParams : qf = newQuoFil(p[1], p[2], <<>>)
    /\ added = {}
    /\ it = NoIter
    /\ yielded = <<>>
    /\ last = Idle
    /\ CasFresh
    /\ ProbeFresh /\ BrNone /\ FedNone

QAdd(h) ==
    /\ last.op \in {"new", "Add"}
    /\ qf.len < Cap(qf)
    /\ qf.len < MaxLen
    /\ AddHalts(qf, h)
    /\ qf' = Add(qf, h)
    /\ added' = added \cup {h}
    /\ last' = [op |-> "Add", res |-> TRUE, known |-> Known(qf, h)]
    /\ UNCHANGED <<it, yielded>>

QLookup(h) ==
    /\ last.op \in {"new", "Add"}
    /\ LookupHalts(qf, h)
    /\ last' = [op |-> "Lookup", res |-> Lookup(qf, h), known |-> Known(qf, h)]
    /\ qf' = lookupLeaves(qf, h)
    /\ UNCHANGED <<added, it, yielded>>

QIter ==
    /\ last.op \in {"new", "Add", "Lookup"}
    /\ Iter(qf) # NoIter
    /\ it' = Iter(qf)
    /\ yielded' = <<>>
    /\ last' = [op |-> "Iter", res |-> TRUE, known |-> FALSE]
    /\ UNCHANGED <<qf, added>>

QNext ==
    /\ it # NoIter
    /\ NextIt(qf, it) # NoIter
    /\ it' = NextIt(qf, it)
    /\ yielded' = IF NextOk(qf, it) THEN Append(yielded, it'.hash) ELSE yielded
    /\ last' = [op |-> "Next", res |-> NextOk(qf, it), known |-> FALSE]
    /\ UNCHANGED <<qf, added>>

QClear ==
    /\ qf.len > 0
    /\ qf' = Clear(qf)
    /\ added' = {}
    /\ it' = NoIter
    /\ yielded' = <<>>
    /\ last' = Idle

Next ==
    \/ \E h \in Hashes : QAdd(h)
    \/ \E h \in LookupHashes : QLookup(h)
    \/ QIter
    \/ QNext
    \/ QClear

Spec == Init /\ [][Next /\ UNCHANGED <<casVars, probeVars, brVars, fedVars>>]_vars

\* ------------------------------------------------------------------------
\*  A cascade: newCasFil, Add (with its spills and level allocations) and
\*  Lookup.  As above, the caller looks a hash up after adding.
\* ------------------------------------------------------------------------

\* the low CasBits bits of a hash: what every level keeps of it (q + r = bits)
CasKey(h) == h % Pow2(CasBits)
CasKnown(h) == \E g \in casAdded \cup casEnv.failed : CasKey(g) = CasKey(h)

CasInit ==
    /\ CasFresh
    /\ QfNone
    /\ ProbeFresh /\ BrNone /\ FedNone

\* the r of the level the next newLevel allocates
NextR == IF Len(cas.levels) > 1 THEN cas.r - 1 ELSE cas.r

\* the caller's bounds on an Add that needs a new level: at most MaxLevels
\* levels, none with slots less than one bit wide, at most MaxFailures
\* refusals by the file system
MayAdd(needs, env) ==
    /\ needs => Len(cas.levels) < MaxLevels /\ 3 + NextR >= 1
    /\ env # EnvOk => needs /\ Cardinality(casEnv.failed) < MaxFailures

Returned(h, res, alloc) ==
    /\ cas' = res.c
    /\ fsize' = res.fsize
    /\ casAdded' = IF res.err \/ res.hang THEN casAdded ELSE casAdded \cup {h}
    /\ casEnv' = [failed |-> IF res.err THEN casEnv.failed \cup {h}
                             ELSE casEnv.failed,
                  hung |-> res.hang]
    /\ casLast' = [op |-> "Add", arg |-> <<>>, res |-> ~res.hang,
                   known |-> CasKnown(h), err |-> res.err, alloc |-> alloc]
    /\ spills' = IF Spills(cas, h) /\ ~res.err /\ ~res.hang THEN spills + 1
                 ELSE spills

CAdd(h, env) ==
    /\ ~casEnv.hung
    /\ casLast.op \in {"new", "Add"}
    /\ MayAdd(NeedsLevel(cas, h), env)
    /\ Returned(h, CasAdd(cas, fsize, h, env),
                IF NeedsLevel(cas, h) THEN env ELSE NoAlloc)

CLookup(h) ==
    /\ ~casEnv.hung
    /\ casLast.op \in {"new", "Add"}
    /\ casLast' = [op |-> "Lookup", arg |-> <<h>>, res |-> CasLookup(cas, h),
                   known |-> CasKnown(h), err |-> FALSE, alloc |-> NoAlloc]
    /\ casEnv' = [casEnv EXCEPT !.hung = ~CasLookupHalts(cas, h)]
    /\ cas' = casLookupLeaves(cas, h)
    /\ UNCHANGED <<fsize, casAdded, spills>>

CasNext ==
    \/ \E h \in CasHashes, env \in {EnvOk, EnvTruncateFails, EnvMmapFails} : CAdd(h, env)
    \/ \E h \in CasLookupHashes : CLookup(h)

CasSpec == CasInit /\ [][CasNext /\ UNCHANGED <<qfVars, probeVars, brVars, fedVars>>]_vars

\* ------------------------------------------------------------------------
\*  The functions without state: newCasFil and the slot operations, called
\*  on arguments from bounded sets.
\* ------------------------------------------------------------------------

\* newCasFil is called with bits in 0..MaxBits
MaxBits == 26

\* slots are built from remainders of up to MaxRemBits bits
MaxRemBits == 4

\* newSlot(rem) with the flags set one by one
MakeSlot(rem, occ, cont, sh) ==
    LET s0 == newSlot(rem)
        s1 == IF occ THEN SetOccupied(s0) ELSE s0
        s2 == IF cont THEN SetContinuation(s1) ELSE s1
    IN  IF sh THEN SetShifted(s2) ELSE s2

PureInit ==
    /\ ProbeFresh
    /\ CasFresh
    /\ QfNone
    /\ BrNone /\ FedNone

PNewCasFil(bits) ==
    probe' = [fn |-> "newCasFil", in |-> <<bits>>,
              out |-> <<QuotientBits(newCasFil(bits)), RemainderBits(newCasFil(bits))>>]

PEmpty(s) ==
    probe' = [fn |-> "Empty", in |-> <<s>>, out |-> <<SlotEmpty(s)>>]

PureNext ==
    \/ \E bits \in 0..MaxBits : PNewCasFil(bits)
    \/ \E rem \in 0 .. Pow2(MaxRemBits) - 1, occ, cont, sh \in BOOLEAN :
          PEmpty(MakeSlot(rem, occ, cont, sh))

PureSpec == PureInit /\ [][PureNext /\ UNCHANGED <<qfVars, casVars, brVars, fedVars>>]_vars

\* ------------------------------------------------------------------------
\*  A bitReader on its own: newBitReader over a zeroed buffer of
\*  ceil(BitCap * bits / 8) bytes, then Put and Get at indexes below BitCap.
\* ------------------------------------------------------------------------

\* the widest value a bitReader takes: 64 - 8 bits
MaxWidth == 56

\* the number of values the buffer is made for
BitCap == 3

\* the words passed to Put: 0, 1, all ones, and 0x5AA55AA55AA55AA5
BitValues ==
    { [k \in 0..7 |-> 0],
      [k \in 0..7 |-> IF k = 0 THEN 1 ELSE 0],
      [k \in 0..7 |-> 255],
      [k \in 0..7 |-> IF k % 2 = 0 THEN 165 ELSE 90] }

\* the low w bits of a word
LowBits(v, w) ==
    [k \in 0..7 |-> IF 8 * k >= w THEN 0 ELSE v[k] % Pow2(Min(8, w - 8 * k))]

BitsInit ==
    /\ \E w \in 1..MaxWidth :
          br = newBitReader([i \in 1 .. (w * BitCap + 7) \div 8 |-> 0], w)
    /\ shadow = [i \in 1..BitCap |-> [k \in 0..7 |-> 0]]
    /\ brLast = [op |-> "new", idx |-> 0, val |-> <<>>]
    /\ ProbeFresh
    /\ CasFresh
    /\ QfNone
    /\ FedNone

BPut(i, v) ==
    /\ br' = [br EXCEPT !.buf = PutWord(br.buf, br.bits, i, v)]
    /\ shadow' = [shadow EXCEPT ![i + 1] = LowBits(v, br.bits)]
    /\ brLast' = [op |-> "Put", idx |-> i, val |-> <<>>]

BGet(j) ==
    /\ brLast' = [op |-> "Get", idx |-> j, val |-> <<GetWord(br.buf, br.bits, j)>>]
    /\ UNCHANGED <<br, shadow>>

BitsNext ==
    \/ \E i \in 0 .. BitCap - 1, v \in BitValues : BPut(i, v)
    \/ \E j \in 0 .. BitCap - 1 : BGet(j)

BitsSpec == BitsInit /\ [][BitsNext /\ UNCHANGED <<qfVars, casVars, probeVars, fedVars>>]_vars

\* ------------------------------------------------------------------------
\*  A cascade fed 4 * 2^q0 distinct hashes, one Add after the other, by a
\*  file system that never refuses.  The hashes of the family "low" are
\*  0, 1, 2, ...: they differ in the bits the cascade keeps.  The hashes of
\*  the family "high" are the multiples of 2^bits: they differ only above.
\* ------------------------------------------------------------------------

\* the widths and families fed: the width 3 gives r0 = 1 as the width 12
\* does, so the levels have the same shapes (q0, 1), (q0, 1), (q0 + 1, 0), ...
GrowthInputs == {<<3, "low">>, <<4, "low">>, <<3, "high">>, <<12, "high">>}

\* q0 of a cascade of that many bits
FedQ0(bits) == QuotientBits(newCasFil(bits))

\* the number of hashes fed in all
FedCount(bits) == 4 * Pow2(FedQ0(bits))

\* the next hash of the family
FedHash(f) == IF f.family = "low" THEN f.n ELSE f.n * Pow2(f.bits)

GrowthInit ==
    /\ \E in \in GrowthInputs :
          /\ fed = [bits |-> in[1], family |-> in[2], n |-> 0]
          /\ cas = newCasFil(in[1])
    /\ fsize = 0
    /\ casAdded = {}
    /\ casEnv = [failed |-> {}, hung |-> FALSE]
    /\ casLast = CasIdle
    /\ spills = 0
    /\ QfNone
    /\ ProbeFresh
    /\ BrNone

Fed(res) ==
    /\ cas' = res.c
    /\ fsize' = res.fsize
    /\ casEnv' = [casEnv EXCEPT !.hung = res.hang]
    /\ fed' = [fed EXCEPT !.n = @ + 1]
    /\ spills' = IF Spills(cas, FedHash(fed)) /\ ~res.hang THEN spills + 1
                 ELSE spills

GAdd ==
    /\ ~casEnv.hung
    /\ fed.n < FedCount(fed.bits)
    /\ Fed(CasAdd(cas, fsize, FedHash(fed), EnvOk))
    /\ casLast' = [CasIdle EXCEPT
                      !.op = "Add",
                      !.res = TRUE,
                      !.alloc = IF NeedsLevel(cas, FedHash(fed)) THEN EnvOk
                                ELSE NoAlloc]
    /\ UNCHANGED casAdded

GrowthNext == GAdd

GrowthSpec == GrowthInit /\ [][GrowthNext /\ UNCHANGED <<qfVars, probeVars, brVars>>]_vars

\* ------------------------------------------------------------------------
\*  The rank helper of the rank-and-select layout: occupiedRank of
\*  ranksel.go and the other draft of it, OccupiedRank.  A 64-bit word is
\*  the set of the positions of its set bits, 0 being the lowest; the data
\*  is the sequence of the occupied words of its blocks.
\* ------------------------------------------------------------------------

\* newRSQFData(&buf[0], 7, 1): 2^7 quotients
RankQuoBits == 7

\* the number of blocks: blockMask + 1 = 1 << (quo - 6)
RankBlocks == Pow2(RankQuoBits - 6)

\* x >> n and x << n on uint64: a shift by 64 or more gives 0
shr64(w, n) == {p - n : p \in {x \in w : x >= n}}
shl64(w, n) == IF n >= 64 THEN {} ELSE {p + n : p \in {x \in w : x + n <= 63}}

\* bits.OnesCount64
OnesCount64(w) == Cardinality(w)

\* r.getBlock(i).occupied: the block i & r.blockMask
getBlock(blocks, i) == blocks[(i % RankBlocks) + 1]

\* r.Occupied(i): the word at byte r.block * i + 1
rsqfOccupied(blocks, i) == blocks[i + 1]

\* the second word of the rank, taken when the range runs past the first
rankNext(w, shift) == IF shift < 64 THEN OnesCount64(shl64(w, shift)) ELSE 0

\* ranksel.go: occ >>= off; occ <<= 64 - b + off; rank := OnesCount64(occ);
\* if shift := 128 - off - b; shift < 64 { rank += OnesCount64(next << shift) }
occupiedRank(blocks, s, b) ==
    OnesCount64(shl64(shr64(getBlock(blocks, s \div 64), s % 64),
                      64 - b + (s % 64)))
        + rankNext(getBlock(blocks, (s \div 64) + 1), 128 - (s % 64) - b)

\* the other draft: occ >>= off; occ <<= (64 - b) % 64; the rest is the same
OccupiedRank(blocks, s, b) ==
    OnesCount64(shl64(shr64(rsqfOccupied(blocks, s \div 64), s % 64),
                      (64 - b) % 64))
        + (IF 128 - (s % 64) - b < 64
           THEN OnesCount64(shl64(rsqfOccupied(blocks, (s \div 64) + 1),
                                  128 - (s % 64) - b))
           ELSE 0)

\* the occupied words the blocks are filled with: all ones (math.MaxUint64),
\* 0x5555555555555555, and the word with its lowest and highest bit set
RankWords == {0 .. 63, {p \in 0 .. 63 : p % 2 = 0}, {0, 63}}

\* the calls made: s a bit of the vector, 1 <= b <= 64, the range inside
\* the vector
RankCalls ==
    {c \in (0 .. 64 * RankBlocks - 1) \X (1 .. 64) : c[1] + c[2] <= 64 * RankBlocks}

RankInit ==
    /\ \E blocks \in [1 .. RankBlocks -> RankWords], c \in RankCalls :
          probe = [fn |-> "none", in |-> <<blocks, c[1], c[2]>>, out |-> <<>>]
    /\ CasFresh
    /\ QfNone
    /\ BrNone /\ FedNone

\* data.occupiedRank(s, b)
RRankLower ==
    /\ probe.fn = "none"
    /\ probe' = [probe EXCEPT
                    !.fn = "occupiedRank",
                    !.out = <<occupiedRank(probe.in[1], probe.in[2], probe.in[3])>>]

\* data.OccupiedRank(s, b)
RRankUpper ==
    /\ probe.fn = "none"
    /\ probe' = [probe EXCEPT
                    !.fn = "OccupiedRank",
                    !.out = <<OccupiedRank(probe.in[1], probe.in[2], probe.in[3])>>]

RankNext == RRankLower \/ RRankUpper

RankSpec == RankInit /\ [][RankNext /\ UNCHANGED <<qfVars, casVars, brVars, fedVars>>]_vars

\* ------------------------------------------------------------------------
\*  Observations of a filter used by the properties
\* ------------------------------------------------------------------------

Slots(f) == 0 .. Cap(f) - 1
NonEmptySlots(f) == {i \in Slots(f) : ~SlotEmpty(getSlot(f, i))}
OccupiedSlots(f) == {i \in Slots(f) : Occupied(getSlot(f, i))}
Keys(f, hs) == {Key(f, h) : h \in hs}
\* a cluster runs over the end of the slot array into index 0
Wrapped(f) == ~SlotEmpty(getSlot(f, Cap(f) - 1)) /\ Shifted(getSlot(f, 0))

\* the values a finished iteration must produce: (quotient << r) | remainder
\* of every added hash, i.e. the hash reduced to its q + r low bits
StoredHashes(f, hs) == {h % Pow2(f.q + f.r) : h \in hs}
Range(seq) == {seq[i] : i \in 1..Len(seq)}
\* the filter was just built: Lookup, Iter and Next do not write to it, so
\* what holds of qf here holds until the next Add or Clear
Built == last.op \in {"new", "Add"}
\* the iteration has ended: Next() has returned false
IterDone == last.op = "Next" /\ ~last.res

\* ------------------------------------------------------------------------
\*  Properties of the quotient filter (specification Spec)
\* ------------------------------------------------------------------------

\* C2: after every Add on a filter that had an empty slot, Lookup(h) is
\* true for every hash h added so far, also when a cluster wraps past the
\* last slot index into index 0.
C2_NoFalseNegatives == Built => \A h \in added : Lookup(qf, h)

\* a cluster wraps around and a Lookup of an added hash has just run
C2_Witness ==
    /\ Wrapped(qf)
    /\ qf.len >= 3
    /\ last.op = "Lookup" /\ last.known /\ last.res

\* C3: Lookup(h) is true exactly when some added hash has the same
\* canonical index and remainder as h; bits of h above bit q + r do not
\* change the result.
C3_LookupExact ==
    /\ Built =>
          \A h \in LookupHashes :
              /\ Lookup(qf, h) <=> Known(qf, h)
              /\ Lookup(qf, h) = Lookup(qf, h % Pow2(qf.q + qf.r))
    /\ last.op = "Lookup" => (last.res <=> last.known)

\* a Lookup of a never-added pair has just returned false on a filter whose
\* canonical slot for it is in use
C3_Witness ==
    /\ last.op = "Lookup" /\ ~last.known /\ ~last.res
    /\ qf.len >= 3
    /\ \E h \in LookupHashes :
          /\ ~Known(qf, h)
          /\ Occupied(getSlot(qf, index(qf, quotient(qf, h))))
          /\ h >= Pow2(qf.q + qf.r)

\* C5: a finished iteration has produced exactly Len() values, pairwise
\* distinct, and their set is the set of added hashes reduced to q + r
\* bits (so each is canonical quotient << r | remainder).
C5_IterRoundTrip ==
    IterDone =>
        /\ Len(yielded) = qf.len
        /\ Cardinality(Range(yielded)) = Len(yielded)
        /\ Range(yielded) = StoredHashes(qf, added)

\* an iteration has finished over a filter in which some element sits in a
\* shifted slot, i.e. away from its canonical index
C5_Witness ==
    /\ IterDone
    /\ qf.len >= 3
    /\ \E i \in Slots(qf) : Shifted(getSlot(qf, i)) /\ ~Continuation(getSlot(qf, i))
    /\ \E h \in added : h >= Pow2(qf.q + qf.r)

\* C6: the values produced by an iteration are strictly increasing.
C6_IterAscending ==
    \A i \in 1..Len(yielded) - 1 : yielded[i] < yielded[i + 1]

\* C7: Add of a hash whose (canonical index, remainder) pair was already
\* added changes neither the buffer nor len.
C7_AddIdempotent ==
    [][(last'.op = "Add" /\ last'.known) => qf' = qf]_vars

\* a duplicate has just been added to a run that holds other elements too
C7_Witness ==
    /\ last.op = "Add" /\ last.known
    /\ qf.len >= 2
    /\ \E i \in Slots(qf) : Continuation(getSlot(qf, i))

\* C8: len is the number of non-empty slots, and the number of distinct
\* (canonical index, remainder) pairs added.
C8_LenCounts ==
    Built =>
    /\ qf.len = Cardinality(NonEmptySlots(qf))
    /\ qf.len = Cardinality(Keys(qf, added))

\* elements were added, one of them twice (under two different hashes)
C8_Witness ==
    /\ last.op = "Add"
    /\ qf.len >= 3
    /\ Cardinality(added) > qf.len

\* C9 as stated: len is the number of slots with the occupied bit set.
C9_LenIsOccupiedCount == Built => qf.len = Cardinality(OccupiedSlots(qf))

\* C9 amended: the number of occupied bits never exceeds len, and the two
\* are equal exactly when no two added pairs share a canonical index.
C9_OccupiedAtMostLen ==
    Built =>
    /\ Cardinality(OccupiedSlots(qf)) <= qf.len
    /\ (Cardinality(OccupiedSlots(qf)) = qf.len) <=>
          (\A g, h \in added :
              Key(qf, g)[1] = Key(qf, h)[1] => Key(qf, g) = Key(qf, h))

\* two added hashes share a canonical index: fewer occupied bits than elements
C9_Witness ==
    /\ last.op = "Add"
    /\ Cardinality(OccupiedSlots(qf)) < qf.len
    /\ Cardinality(OccupiedSlots(qf)) >= 2

\* C10: slot i has its occupied bit set exactly when some added hash has
\* canonical index i; so the occupied bits count the distinct quotients.
C10_OccupiedIffCanonical ==
    Built =>
    /\ \A i \in Slots(qf) :
          Occupied(getSlot(qf, i)) <=> \E h \in added : Key(qf, h)[1] = i
    /\ Cardinality(OccupiedSlots(qf)) = Cardinality({Key(qf, h)[1] : h \in added})

\* an occupied canonical slot holds another quotient's element (its own run
\* was pushed right), after an Add that shifted slots
C10_Witness ==
    /\ last.op = "Add"
    /\ \E i \in Slots(qf) :
          /\ Occupied(getSlot(qf, i)) /\ Shifted(getSlot(qf, i))
          /\ \E j \in Slots(qf) : j # i /\ Occupied(getSlot(qf, j)) /\ Shifted(getSlot(qf, j))

\* ------------------------------------------------------------------------
\*  Properties of the cascade (specification CasSpec)
\* ------------------------------------------------------------------------

CasBuilt == casLast.op \in {"new", "Add"} /\ ~casEnv.hung

\* C1: after each successful Add, Lookup(h) is true for every hash h passed
\* to a successful Add so far, spills and new levels included.
C1_CascadeNoFalseNegatives ==
    (CasBuilt /\ casEnv.failed = {}) => \A h \in casAdded : CasLookup(cas, h)

\* C4: the cascade's Lookup(h) is true exactly when the Lookup of some
\* non-empty level is; with no levels, or only empty ones, it is false.
C4_CascadeLookupAnyLevel ==
    /\ CasBuilt =>
          \A h \in CasLookupHashes :
              CasLookup(cas, h) <=>
                  \E k \in 1..Len(cas.levels) :
                      ~QfEmpty(cas.levels[k]) /\ Lookup(cas.levels[k], h)
    /\ casLast.op = "Lookup" =>
          (casLast.res <=>
              \E k \in 1..Len(cas.levels) :
                  ~QfEmpty(cas.levels[k]) /\ Lookup(cas.levels[k], casLast.arg[1]))

\* a Lookup has returned true for a hash that the non-empty level 0 does
\* not hold and that a level after an empty level holds
C4_Witness ==
    /\ casLast.op = "Lookup" /\ casLast.res
    /\ Len(cas.levels) >= 3
    /\ ~QfEmpty(cas.levels[1]) /\ ~Lookup(cas.levels[1], casLast.arg[1])
    /\ QfEmpty(cas.levels[2])
    /\ Lookup(cas.levels[3], casLast.arg[1])

\* C11: the sum of Len() over all levels, which is what the cascade's Len()
\* returns, is the number of distinct low-CasBits-bit values among the
\* hashes added (every Add so far has returned no error).
C11_CascadeConservation ==
    (CasBuilt /\ casEnv.failed = {}) =>
        CasLen(cas) = Cardinality({CasKey(h) : h \in casAdded})

\* the low-CasBits-bit values a level answers Lookup with true
StoredSet(f) == {v \in 0 .. Pow2(CasBits) - 1 : Lookup(f, v)}

\* the levels as Add(h) has them when it tests the spill trigger
PreSpill(c, h) == [c.levels EXCEPT ![1] = Add(c.levels[1], h)]

\* the step is an Add(h) that returned no error and ran a spill
Spilled(h) ==
    /\ casLast'.op = "Add" /\ ~casLast'.err /\ ~casEnv'.hung
    /\ Len(cas.levels) >= 1
    /\ PreSpill(cas, h)[1].len * 4 >= Cap(cas.levels[1]) * 3
    /\ cas' = CasAdd(cas, fsize, h, EnvOk).c

\* what a completed spill has done, pre being the levels before it and n
\* the length of the non-empty prefix
SpillEffect(pre, n) ==
    /\ n >= 1
    /\ Len(cas'.levels) >= n + 1
    /\ \A k \in 1..n : QfEmpty(cas'.levels[k])
    /\ IF n < Len(cas.levels) THEN QfEmpty(cas.levels[n + 1])
       ELSE Len(cas'.levels) = Len(cas.levels) + 1
    /\ StoredSet(cas'.levels[n + 1]) = UNION {StoredSet(pre[k]) : k \in 1..n}
    /\ cas'.levels[n + 1].len = Cardinality(UNION {StoredSet(pre[k]) : k \in 1..n})
    /\ Len(cas.levels) = 1 => cas'.levels[2].len = pre[1].len

\* C12: when a spill completes, every level of the prefix is empty, the
\* destination was empty before (or is newly allocated), and what the
\* destination stores is the union of what the prefix levels stored; its
\* Len() is the number of those values, and after the first spill it is
\* the pre-spill Len() of level 0 (no allocation has failed so far).
C12_SpillEffect ==
    [][\A h \in CasHashes :
          (Spilled(h) /\ casEnv'.failed = {}) => SpillEffect(PreSpill(cas, h), prefixLen(PreSpill(cas, h), 1))]_vars

\* level 0 as Add finds it, allocated by the first Add
Level0(c) ==
    IF Len(c.levels) = 0 THEN newLevel(c, 0, EnvOk).c.levels[1] ELSE c.levels[1]

\* the step is an Add(h) that returned no error
AddReturned(h) ==
    /\ casLast'.op = "Add" /\ ~casLast'.err /\ ~casEnv'.hung
    /\ cas' = CasAdd(cas, fsize, h, EnvOk).c

\* what Add(h) has done, l0 being level 0 with the hash inserted: a spill
\* (level 0 is empty, what it held is in a later level) at 75% load or
\* above, nothing more than the insertion below
TriggerEffect(l0) ==
    /\ IF l0.len * 4 >= Cap(l0) * 3
       THEN /\ QfEmpty(cas'.levels[1])
            /\ \E k \in 2..Len(cas'.levels) :
                  /\ \A j \in 2..k - 1 : QfEmpty(cas'.levels[j])
                  /\ cas'.levels[k].len >= l0.len
       ELSE /\ cas'.levels[1] = l0
            /\ Len(cas.levels) >= 1 => cas' = [cas EXCEPT !.levels[1] = l0]
    /\ cas'.levels[1].len * 4 < Cap(cas'.levels[1]) * 3

\* C13: Add inserts the hash into level 0 and then spills exactly when
\* level0.Len()*4 >= level0.Cap()*3; so when a successful Add returns,
\* level 0 is below 75% load, and empty if the Add spilled.
C13_SpillTrigger ==
    [][\A h \in CasHashes : AddReturned(h) => TriggerEffect(Add(Level0(cas), h))]_vars

\* an Add has just spilled level 0 into the existing empty level 1 while
\* level 2 holds earlier elements
C13_Witness ==
    /\ casLast.op = "Add" /\ ~casLast.err /\ ~casEnv.hung
    /\ Len(cas.levels) >= 3
    /\ QfEmpty(cas.levels[1])
    /\ ~QfEmpty(cas.levels[2])
    /\ ~QfEmpty(cas.levels[3])

\* C14: levels 0 and 1 have the initial (q0, r0); every level k >= 2 has
\* q_k = q_(k-1) + 1 and r_k = r_(k-1) - 1; every level has q_k + r_k = B.
\* (A negative r stands for the unsigned 2^64 + r, which is neither
\* r_(k-1) - 1 nor B - q_k.)
C14_LevelGrowthRule ==
    \A k \in 1..Len(cas.levels) :
        /\ k <= 2 => /\ cas.levels[k].q = newCasFil(CasBits).q
                     /\ cas.levels[k].r = newCasFil(CasBits).r
        /\ k >= 3 => /\ cas.levels[k].q = cas.levels[k - 1].q + 1
                     /\ cas.levels[k].r = cas.levels[k - 1].r - 1
        /\ cas.levels[k].r >= 0
        /\ cas.levels[k].q + cas.levels[k].r = CasBits

\* C16: QuotientBits() and RemainderBits() return the parameters of level
\* 0, which are the initial (q0, r0), however many levels are allocated
\* (no allocation has failed).
C16_GettersAreLevel0 ==
    (casEnv.failed = {} /\ Len(cas.levels) >= 1) =>
        /\ QuotientBits(cas) = cas.levels[1].q
        /\ RemainderBits(cas) = cas.levels[1].r
        /\ QuotientBits(cas) = QuotientBits(newCasFil(CasBits))
        /\ RemainderBits(cas) = RemainderBits(newCasFil(CasBits))

\* C17: Add returns an error exactly when growing or mapping the backing
\* region fails during the call (for level 0 on the first Add, or for a new
\* spill destination); an Add that allocates nothing (a duplicate, a spill
\* into an existing empty level) returns none, and Lookup never fails.
C17_ErrorIffAllocationFails ==
    /\ (casLast.op = "Add" /\ ~casEnv.hung) =>
          (casLast.err <=> casLast.alloc \in {EnvTruncateFails, EnvMmapFails})
    /\ casLast.op = "Lookup" => ~casLast.err /\ casLast.alloc = NoAlloc

\* an Add has returned the error of a failed mapping of a spill destination
C17_Witness ==
    /\ casLast.op = "Add" /\ casLast.err
    /\ casLast.alloc = EnvMmapFails
    /\ Len(cas.levels) >= 2
    /\ \A k \in 1..Len(cas.levels) : ~QfEmpty(cas.levels[k])

\* ------------------------------------------------------------------------
\*  Properties of the functions without state (specification PureSpec)
\* ------------------------------------------------------------------------

\* (3 + r) * 2^q < 32768, and the value where it is
SplitFits(q, r) == q < 15 /\ (3 + r) * Pow2(q) < PageBits
SplitValue(q, r) == (3 + r) * Pow2(q)

C19_EmptyIffAllBitsZero ==
    probe.fn = "Empty" => (probe.out[1] <=> probe.in[1] = 0)

\* C19: for every slot value, Empty() is true if and only if the three
\* flags are clear, whatever the remainder is.
C19_EmptyIffFlagsClear ==
    probe.fn = "Empty" =>
        (probe.out[1] <=> /\ ~Occupied(probe.in[1])
                          /\ ~Continuation(probe.in[1])
                          /\ ~Shifted(probe.in[1]))

\* Empty() has answered true for a slot whose remainder is not zero
C19_Witness ==
    /\ probe.fn = "Empty"
    /\ probe.out[1]
    /\ Remainder(probe.in[1]) # 0

\* ------------------------------------------------------------------------
\*  Properties of the bitReader (specification BitsSpec)
\* ------------------------------------------------------------------------

\* a word below 2^24 as a number
WordInt(v) == v[0] + 256 * v[1] + 65536 * v[2]

\* C18: for every width in 1..56 and a buffer of ceil(capacity * w / 8)
\* bytes, after any Puts at indexes below the capacity, Get(j) is the low w
\* bits of the value last Put at j, and 0 if there was none; so a Put
\* changes the value at no other index, the last one included.  For the
\* widths up to 24 bits Get and Put on numbers do what they do on words.
C18_BitsAgreeWithShadow ==
    /\ \A j \in 0 .. BitCap - 1 : GetWord(br.buf, br.bits, j) = shadow[j + 1]
    /\ brLast.op = "Get" => brLast.val = <<shadow[brLast.idx + 1]>>
    /\ br.bits <= 24 =>
          \A j \in 0 .. BitCap - 1 :
              /\ Get(br.buf, br.bits, j) = WordInt(shadow[j + 1])
              /\ \A v \in BitValues :
                    Put(br.buf, br.bits, j, WordInt(LowBits(v, 24)))
                        = PutWord(br.buf, br.bits, j, v)

\* a Put of 56 bits has just written the last index, where fewer than 8
\* bytes of the buffer remain, and every index holds a non-zero value
C18_Witness ==
    /\ br.bits = MaxWidth
    /\ brLast.op = "Put"
    /\ (brLast.idx * br.bits) \div 8 + 8 > Len(br.buf)
    /\ \A i \in 1..Len(shadow) : shadow[i] # [k \in 0..7 |-> 0]

\* ------------------------------------------------------------------------
\*  Properties of the growth of a cascade (specification GrowthSpec)
\* ------------------------------------------------------------------------

\* the number of Adds that fill an emptied level 0 to 75%
FillCount(bits) == (3 * Pow2(FedQ0(bits))) \div 4

\* the levels there are after n Adds each of which puts a new element in
\* level 0: the spills 1, 2 and 4 allocate, the spill 3 goes to level 1
LevelsAfter(bits, n) ==
    IF n = 0 THEN 0
    ELSE IF n < FillCount(bits) THEN 1
    ELSE IF n < 2 * FillCount(bits) THEN 2
    ELSE IF n < 4 * FillCount(bits) THEN 3
    ELSE 4

SpilledFullPrefix ==
    /\ CasBuilt
    /\ casLast.op = "Add"
    /\ casLast.alloc = EnvOk
    /\ Len(cas.levels) >= 2

Destination == cas.levels[Len(cas.levels)]

RECURSIVE BufLens(_, _)
\* the sum of the lengths of the buffers of the first k levels
BufLens(levels, k) ==
    IF k = 0 THEN 0 ELSE Len(levels[k].buf) + BufLens(levels, k - 1)

\* n rounded up to a multiple of the page size
PageRound(n) == ((n + PageSize - 1) \div PageSize) * PageSize

\* C22: while no allocation has failed there is one mapping per level, in
\* the order of allocation; the mapping of level k starts where the
\* buffers of the levels before it end and has the length of the level's
\* buffer, which is bufSize(q_k, r_k) rounded up to whole pages; and the
\* file is as long as all the buffers together.
C22_RegionLayout ==
    casEnv.failed = {} =>
        /\ Len(cas.mappings) = Len(cas.levels)
        /\ \A k \in 1..Len(cas.levels) :
              /\ cas.mappings[k] = <<BufLens(cas.levels, k - 1), Len(cas.levels[k].buf)>>
              /\ Len(cas.levels[k].buf)
                    = PageRound(bufSize(cas.levels[k].q, cas.levels[k].r))
        /\ fsize = BufLens(cas.levels, Len(cas.levels))

\* three levels or more have been allocated, none refused, and the buffer
\* of one of them was rounded up
C22_Witness ==
    /\ casEnv.failed = {}
    /\ Len(cas.levels) >= 3
    /\ \E k \in 1..Len(cas.levels) :
          Len(cas.levels[k].buf) > bufSize(cas.levels[k].q, cas.levels[k].r)

\* ------------------------------------------------------------------------
\*  The layout of runs and clusters (specification Spec)
\* ------------------------------------------------------------------------

\* the number of steps from index a on to index b, going round
Dist(f, a, b) == (b - a + Cap(f)) % Cap(f)
\* the index d steps on from a
Ahead(f, a, d) == (a + d) % Cap(f)

\* the slots of the run that starts at s: s and the continuations behind it
RunSlots(f, s) ==
    {j \in Slots(f) :
        \A d \in 1..Dist(f, s, j) : Continuation(getSlot(f, Ahead(f, s, d)))}

\* the slots that start a run
RunStarts(f) ==
    {j \in Slots(f) : ~SlotEmpty(getSlot(f, j)) /\ ~Continuation(getSlot(f, j))}

\* the remainders of the added hashes whose canonical index is i
RemaindersAt(f, i) ==
    {remainder(f, h) : h \in {g \in added : index(f, quotient(f, g)) = i}}

\* the slots from a on to b, going round, are all in use
InUse(f, a, b) ==
    \A d \in 0..Dist(f, a, b) : ~SlotEmpty(getSlot(f, Ahead(f, a, d)))

\* the run of the occupied index i starts at s
IsRunOf(f, i, s) ==
    /\ s # NoIndex
    /\ s \in RunStarts(f)
    /\ InUse(f, i, s)
    /\ Cardinality(RunSlots(f, s)) = Cardinality(RemaindersAt(f, i))
    /\ {Remainder(getSlot(f, j)) : j \in RunSlots(f, s)} = RemaindersAt(f, i)
    /\ \A j \in RunSlots(f, s) \ {s} :
          Remainder(getSlot(f, prev(f, j))) < Remainder(getSlot(f, j))

\* C24: after every Add on a filter that had an empty slot, each occupied
\* index i has exactly one run: findRun(i) is a slot in use at or after i
\* in i's cluster with continuation clear, the slots behind it with
\* continuation set hold, with it, the remainders added for i in strictly
\* increasing order, different indexes have different runs, and there are
\* no other runs and no other slots in use.
C24_RunStructure ==
    Built =>
        /\ \A i \in OccupiedSlots(qf) : IsRunOf(qf, i, findRun(qf, i))
        /\ \A i, j \in OccupiedSlots(qf) :
              findRun(qf, i) = findRun(qf, j) => i = j
        /\ Cardinality(RunStarts(qf)) = Cardinality(OccupiedSlots(qf))
        /\ Cardinality(NonEmptySlots(qf)) = qf.len

\* a run of two or more remainders starts away from its canonical index,
\* behind the run of an earlier index
C24_Witness ==
    /\ Built
    /\ \E i \in OccupiedSlots(qf) :
          /\ findRun(qf, i) # i
          /\ Cardinality(RunSlots(qf, findRun(qf, i))) >= 2
          /\ Cardinality(OccupiedSlots(qf)) >= 2

\* the slots that start a cluster: in use and not shifted
ClusterStarts(f) ==
    {c \in Slots(f) : ~SlotEmpty(getSlot(f, c)) /\ ~Shifted(getSlot(f, c))}

\* the number of slots of the set S among c, c + 1, ... up to t, going round
CountUpTo(f, S, c, t) == Cardinality({u \in S : Dist(f, c, u) <= Dist(f, c, t)})

\* the run that starts at s, reached from the cluster start c over slots in
\* use, is the run of the occupied index i: both have the same number
\* counting from c
SameRank(f, c, s, i) ==
    CountUpTo(f, RunStarts(f), c, s) = CountUpTo(f, OccupiedSlots(f), c, i)

\* C25: counting from the start of a cluster over the slots in use behind
\* it, the j-th run belongs to the j-th occupied index: that index is at
\* or before the run, the run holds the remainders added for it, and
\* findRun of it is the start of the run.
C25_RunOrder ==
    Built =>
        \A c \in ClusterStarts(qf) :
            \A s \in RunStarts(qf) :
                InUse(qf, c, s) =>
                    \E i \in OccupiedSlots(qf) :
                        /\ SameRank(qf, c, s, i)
                        /\ Dist(qf, c, i) <= Dist(qf, c, s)
                        /\ {Remainder(getSlot(qf, k)) : k \in RunSlots(qf, s)}
                              = RemaindersAt(qf, i)
                        /\ findRun(qf, i) = s

\* a cluster holds the runs of three indexes, the last two pushed away from
\* their indexes
C25_Witness ==
    /\ Built
    /\ \E c \in ClusterStarts(qf) :
          \E s \in RunStarts(qf) :
              /\ InUse(qf, c, s)
              /\ CountUpTo(qf, RunStarts(qf), c, s) = 3
              /\ \A t \in RunStarts(qf) :
                    InUse(qf, c, t) /\ t # c => Shifted(getSlot(qf, t))

\* the first slots of the maximal stretches of slots in use
StretchStarts(f) ==
    {b \in Slots(f) : ~SlotEmpty(getSlot(f, b)) /\ SlotEmpty(getSlot(f, prev(f, b)))}

\* C26 as stated: of every maximal stretch of slots in use the first slot
\* has shifted clear and every other slot has shifted set.
C26_OneClusterPerStretch ==
    Built =>
        \A b \in StretchStarts(qf) :
            /\ ~Shifted(getSlot(qf, b))
            /\ \A t \in Slots(qf) \ {b} : InUse(qf, b, t) => Shifted(getSlot(qf, t))

\* slot t holds the first element of the run of its own index
HoldsOwnRun(f, t) ==
    /\ Occupied(getSlot(f, t))
    /\ ~Continuation(getSlot(f, t))
    /\ findRun(f, t) = t

\* C26: of every maximal stretch of slots in use the first slot has
\* shifted clear, and any slot in use has shifted clear exactly when it
\* holds the first element of the run of its own index; so a stretch is
\* one cluster or several, each starting with its one slot that is not
\* shifted.
C26_ClustersStartUnshifted ==
    Built =>
        \A t \in NonEmptySlots(qf) :
            /\ SlotEmpty(getSlot(qf, prev(qf, t))) => ~Shifted(getSlot(qf, t))
            /\ ~Shifted(getSlot(qf, t)) <=> HoldsOwnRun(qf, t)

\* a stretch of slots in use holds a shifted slot and, behind its first
\* slot, a second slot that is not shifted
C26_Witness ==
    /\ Built
    /\ \E b \in StretchStarts(qf) :
          /\ \E t \in Slots(qf) \ {b} : InUse(qf, b, t) /\ ~Shifted(getSlot(qf, t))
          /\ \E u \in Slots(qf) : InUse(qf, b, u) /\ Shifted(getSlot(qf, u))

\* the element in slot t was added for the canonical index i: t is in the
\* run of i and holds one of the remainders added for i
HeldFor(f, t, i) ==
    /\ findRun(f, i) # NoIndex
    /\ t \in RunSlots(f, findRun(f, i))
    /\ Remainder(getSlot(f, t)) \in RemaindersAt(f, i)

\* C27: after every Add on a filter that had an empty slot, every slot in
\* use holds an element of some occupied index, and its shifted bit is set
\* exactly when the slot is not at that index.
C27_ShiftedIffDisplaced ==
    Built =>
        \A t \in NonEmptySlots(qf) :
            /\ \E i \in OccupiedSlots(qf) : HeldFor(qf, t, i)
            /\ \A i \in OccupiedSlots(qf) :
                  HeldFor(qf, t, i) => (Shifted(getSlot(qf, t)) <=> t # i)

\* a run of two elements starts at its canonical index: its first slot is
\* not shifted, its second is, and the element of another index behind it
\* is shifted too
C27_Witness ==
    /\ Built
    /\ \E i \in OccupiedSlots(qf) :
          /\ findRun(qf, i) = i
          /\ Cardinality(RunSlots(qf, i)) >= 2
          /\ ~Shifted(getSlot(qf, i))
          /\ \E j \in OccupiedSlots(qf) \ {i} :
                findRun(qf, j) # j /\ Shifted(getSlot(qf, findRun(qf, j)))

\* the slots in use that hold the element added as hash h
HoldersOf(f, h) ==
    {t \in NonEmptySlots(f) :
        /\ HeldFor(f, t, index(f, quotient(f, h)))
        /\ Remainder(getSlot(f, t)) = remainder(f, h)}

\* C28: in every state of the filter, after Adds and Clears, a slot whose
\* three flags are clear is the zero word, and every added hash is held by
\* a slot with a flag set, so that Empty() is false of it; the slots with a
\* flag set are as many as Len().  (Lookup, Iter and Next leave the filter
\* as the last Add or Clear left it.)
C28_EmptyMeansNothingStored ==
    Built =>
        /\ \A t \in Slots(qf) : SlotEmpty(getSlot(qf, t)) => getSlot(qf, t) = 0
        /\ \A h \in added : HoldersOf(qf, h) # {}
        /\ Cardinality(NonEmptySlots(qf)) = qf.len

\* an element with remainder 0 sits in a slot whose only set bit is the
\* shifted flag
C28_Witness ==
    /\ qf.len >= 2
    /\ \E h \in added :
          /\ remainder(qf, h) = 0
          /\ \E t \in HoldersOf(qf, h) :
                /\ ~Occupied(getSlot(qf, t))
                /\ ~Continuation(getSlot(qf, t))
                /\ Shifted(getSlot(qf, t))

\* the occupied bit of slot j differs between the two filters
OccupiedChanged(f, g, j) == Occupied(getSlot(f, j)) # Occupied(getSlot(g, j))

\* C29: an Add on a filter that had an empty slot changes the occupied bit
\* of no slot but that of the added hash's canonical index, and that one
\* only from clear to set, also when the Add moves slots one position on.
C29_OccupiedStaysPut ==
    [][last'.op = "Add" =>
          \A j \in Slots(qf) :
              OccupiedChanged(qf, qf', j) =>
                  /\ ~Occupied(getSlot(qf, j))
                  /\ \E h \in added' \ added : j = index(qf, quotient(qf, h))]_vars

\* after an Add, an occupied slot holds the element of another index while
\* its own run starts further on, and a slot that was filled by the shift
\* is in use without the occupied bit
C29_Witness ==
    /\ last.op = "Add"
    /\ \E j \in OccupiedSlots(qf) :
          /\ findRun(qf, j) # j
          /\ \E i \in OccupiedSlots(qf) \ {j} : HeldFor(qf, j, i)
    /\ \E t \in NonEmptySlots(qf) : ~Occupied(getSlot(qf, t))

\* ------------------------------------------------------------------------
\*  Further properties of the growth of a cascade (specification
\*  GrowthSpec), continued
\* ------------------------------------------------------------------------

\* C30: while no allocation has failed, every level is at most 75% full
\* and has an empty slot, and no Add has failed to return; so no Add of
\* the cascade and no spill has added to a level without an empty slot.
C30_NoLevelSaturates ==
    casEnv.failed = {} =>
        /\ ~casEnv.hung
        /\ \A k \in 1..Len(cas.levels) :
              /\ cas.levels[k].len * 4 <= Cap(cas.levels[k]) * 3
              /\ \E t \in Slots(cas.levels[k]) : SlotEmpty(getSlot(cas.levels[k], t))

\* levels 1 and 2 are both 75% full after spills and level 0 has been
\* added to again, with no allocation refused
C30_Witness ==
    /\ casEnv.failed = {}
    /\ Len(cas.levels) >= 3
    /\ cas.levels[1].len > 0
    /\ \A k \in 2..3 : cas.levels[k].len * 4 = Cap(cas.levels[k]) * 3

\* ------------------------------------------------------------------------
\*  Growth and failure of the cascade (specification CasSpec)
\* ------------------------------------------------------------------------

\* C31: the decrement of r in newLevel is never executed at r = 0: every
\* allocated level has a remainder width r_k >= 0 (a slot width of 3 or
\* more), the cascade's own r stays at 0 or above, and there are never more
\* than r0 + 2 levels (no allocation has failed).
C31_RemainderNeverUnderflows ==
    casEnv.failed = {} =>
        /\ cas.r >= 0
        /\ \A k \in 1..Len(cas.levels) :
              /\ cas.levels[k].r >= 0
              /\ 3 + cas.levels[k].r >= 3
        /\ Len(cas.levels) <= newCasFil(CasBits).r + 2

RECURSIVE Log2Floor(_)
\* floor(log2(n)) for n >= 1
Log2Floor(n) == IF n <= 1 THEN 0 ELSE 1 + Log2Floor(n \div 2)

IsPow2(n) == n >= 1 /\ Pow2(Log2Floor(n)) = n

\* the step is the Add that runs the spill number spills', and no allocation
\* has failed so far
SpillStep == spills' = spills + 1 /\ casEnv'.failed = {}

\* C32: with no allocation failures, after the n-th spill (n >= 1) the
\* cascade has exactly floor(log2(n)) + 2 levels; the n-th spill allocates
\* a level exactly when n is a power of two, and leaves the number of
\* levels alone otherwise.
C32_BinaryCounter ==
    /\ []((casEnv.failed = {} /\ spills >= 1) =>
             Len(cas.levels) = Log2Floor(spills) + 2)
    /\ [][SpillStep =>
             /\ Len(cas'.levels) = Len(cas.levels) + 1 <=> IsPow2(spills')
             /\ Len(cas'.levels) = Len(cas.levels) <=> ~IsPow2(spills')
             /\ casLast'.alloc = EnvOk <=> IsPow2(spills')]_vars

\* the 7th spill has been run, into the existing level 1, after the 4th has
\* allocated level 3
C32_Witness ==
    /\ spills = 7
    /\ casEnv.failed = {}
    /\ casLast.op = "Add" /\ casLast.alloc = NoAlloc
    /\ Len(cas.levels) = 4
    /\ QfEmpty(cas.levels[1])
    /\ \A k \in 2..4 : ~QfEmpty(cas.levels[k])

\* the step is an Add that returned the error of a failed newLevel
AllocFailed == casLast'.op = "Add" /\ casLast'.err

\* C33: an Add whose newLevel fails leaves the list of levels, the contents
\* of every level (level 0 apart, which has taken the hash before the
\* spill) and the (q, r) of the next allocation as they were.
C33_FailedAllocationChangesNothing ==
    [][AllocFailed =>
          /\ cas'.q = cas.q
          /\ cas'.r = cas.r
          /\ Len(cas'.levels) = Len(cas.levels)
          /\ \A k \in 2..Len(cas.levels) : cas'.levels[k] = cas.levels[k]]_vars

\* ------------------------------------------------------------------------
\*  The frame of Lookup (specifications CasSpec and Spec)
\* ------------------------------------------------------------------------

\* the filters f and g have the same parameters, the same Len() and the
\* same slot at every index
SameFilter(f, g) ==
    /\ f.q = g.q /\ f.r = g.r
    /\ f.len = g.len
    /\ f.buf = g.buf
    /\ \A i \in Slots(f) : getSlot(f, i) = getSlot(g, i)

HasEmptySlot(f) == \E i \in Slots(f) : SlotEmpty(getSlot(f, i))

\* the first empty slot at or after index i
FirstEmptyFrom(f, i) ==
    Ahead(f, i, CHOOSE d \in 0 .. Cap(f) - 1 :
                   /\ SlotEmpty(getSlot(f, Ahead(f, i, d)))
                   /\ \A e \in 0 .. d - 1 : ~SlotEmpty(getSlot(f, Ahead(f, i, e))))

\* Add(h) returns, and either changes nothing or overwrites exactly one
\* empty slot, the first one at or after the canonical index of h
AddStops(f, h) ==
    /\ AddHalts(f, h)
    /\ LET g == Add(f, h)
           filled == {i \in Slots(f) : SlotEmpty(getSlot(f, i)) /\ ~SlotEmpty(getSlot(g, i))}
       IN  IF g.len = f.len THEN filled = {}
           ELSE filled = {FirstEmptyFrom(f, index(f, quotient(f, h)))}

\* C35: on a filter with at least one empty slot every Add returns (its
\* shift stops at the first empty slot, which it overwrites), every Lookup
\* returns, Iter() returns, and a loop over Next() ends after exactly
\* Len() successful calls: Next() succeeds while fewer than Len() values
\* have been produced, returns then, and fails from the Len()-th on.
C35_Termination ==
    /\ (Built /\ HasEmptySlot(qf)) =>
          /\ \A h \in Hashes : AddStops(qf, h)
          /\ \A h \in LookupHashes : LookupHalts(qf, h)
          /\ Iter(qf) # NoIter
          /\ IterAll(qf) # <<NoIndex>>
          /\ Len(IterAll(qf)) = qf.len
    /\ (it # NoIter /\ HasEmptySlot(qf)) =>
          /\ NextIt(qf, it) # NoIter
          /\ Len(yielded) = it.vis
          /\ NextOk(qf, it) <=> Len(yielded) < qf.len
    /\ (IterDone /\ HasEmptySlot(qf)) => Len(yielded) = qf.len

\* an iteration has ended after three successful Next() calls over a filter
\* with a single empty slot, in which every element but one is shifted
C35_Witness ==
    /\ IterDone
    /\ qf.len = 3 /\ Cap(qf) = 4
    /\ Len(yielded) = 3
    /\ Cardinality({i \in Slots(qf) : Shifted(getSlot(qf, i))}) = 2

\* ------------------------------------------------------------------------
\*  The rank helper (specification RankSpec)
\* ------------------------------------------------------------------------

\* the number of set bits of the occupied vector at positions s .. s + b - 1
RankOf(blocks, s, b) ==
    Cardinality({i \in s .. s + b - 1 : (i % 64) \in blocks[(i \div 64) + 1]})

\* C36: for every start bit s and every count b with 1 <= b <= 64,
\* occupiedRank(s, b) is the number of set bits of the occupied vector at
\* the positions s, s + 1, ..., s + b - 1, also when the range starts
\* inside a block or runs over two blocks.
C36_OccupiedRankCounts ==
    probe.fn = "occupiedRank" =>
        probe.out[1] = RankOf(probe.in[1], probe.in[2], probe.in[3])

\* The other draft of the helper, OccupiedRank, returns that number.
OtherDraftRankCounts ==
    probe.fn = "OccupiedRank" =>
        probe.out[1] = RankOf(probe.in[1], probe.in[2], probe.in[3])

====
